---- MODULE Spec2Model ----
(***************************************************************************)
(* Model of src/src/app.ts (class App): the per-frame simulation core of   *)
(* the coin collector: key-state snapshot, locomotion callback, vertical   *)
(* motion, follow camera and the coin sweep.                               *)
(*                                                                         *)
(* Units.  Lengths are integers in micrometres (1 m = 10^6), frame times   *)
(* in centiseconds, velocities in 10^-4 m/s, so that velocity * dt is a    *)
(* length and gravity * dt a velocity without any rounding.  Horizontal    *)
(* speeds are in centimetres per frame and the forward vector is scaled by *)
(* 10^4, so that speed * forward is a length as well.  The yaw is counted  *)
(* in steps of playerRotationSpeed (0.06 rad).                             *)
(***************************************************************************)
EXTENDS Integers, Sequences, FiniteSets

VARIABLES
    loading,      \* the promise of loadModel(): "pending", "resolved", "rejected"
    player,       \* this.player is set (TRUE) or still null (FALSE)
    pc,           \* position inside the render-loop callback / load continuation
    frame,        \* number of render-loop callbacks started so far
    events,       \* number of key events delivered so far
    keyStatus,    \* the keyStatus object of loadModel
    position,     \* player.position
    yaw,          \* player orientation about the Y axis, in rotation steps
    velocity,     \* this.velocity
    isGrounded,   \* this.isGrounded
    speed,        \* closure variable speed of loadModel (0: not assigned yet)
    animSpeed,    \* closure variable animSpeed of loadModel (0: not assigned yet)
    started,      \* animation group started by the last locomotion callback
    playing,      \* animation groups currently playing
    camPosition,  \* this.camera.position
    camTarget,    \* point the camera was last aimed at
    spheres,      \* this.spheres: the names i of the meshes coin_i, in array order
    randomState,  \* state of the Math.random generator when spawnCoins draws
    disposed,     \* names of the spheres disposed so far, in order
    jumpsThisPress, \* jumps triggered since the jump key last went down
    lastEvent,    \* key events delivered since the last frame started: the
                  \* last one's identifier and kind (<<>>: none)
    fault         \* a TypeError was thrown by a per-frame component

vars == <<loading, player, pc, frame, events, keyStatus, position, yaw,
          velocity, isGrounded, speed, animSpeed, started, playing,
          camPosition, camTarget, spheres, randomState, disposed,
          jumpsThisPress, lastEvent, fault>>

(***************************************************************************)
(* Bounds of the model.                                                    *)
(***************************************************************************)
MaxFrames == 3

\* number of key events the host delivers
MaxKeyEvents == 3

\* frame times the engine may report, in centiseconds: a 50 fps frame and
\* two long frames after a stall
DeltaTimes == {2, 25, 30}

\* resolution of the modelled Math.random(): it returns r / RandMod
RandMod == 500

\* internal states <<first value, increment>> the modelled generator may have
\* when spawnCoins starts drawing
RandomStates == {<<155, 3>>}

\* key identifiers the host delivers in key events
RawKeys == {"w", "W", "s", "a", "d", "b", "Shift", "shift", " ", "x"}

\* key identifiers the host delivers under LiveSpec: the jump key and the
\* dance key, the two keys the jump request depends on
LiveRawKeys == {" ", "b"}

(***************************************************************************)
(* Program constants.                                                      *)
(***************************************************************************)
Metre == 1000 * 1000

\* scale of the forward vector
ForwardScale == 100 * 100

jumpForce == 40000
gravityY == -981
GroundThreshold == 100000
playerWalkSpeed == 3
playerRunSpeed == 10
playerSpeedBackwards == 1
runAnimSpeed == 3
walkBackSpeed == 1
followDistance == 10
cameraHeight == 5
groundWidth == 50
groundHeight == 50
CoinCount == 100
CoinY == 250000
CoinHalfX == 100000
CoinHalfY == 500000
CoinHalfZ == 300000

Keys == {"w", "s", "a", "d", "b", "Shift", " "}

Vec(a, b, c) == [x |-> a, y |-> b, z |-> c]

VecAdd(u, v) == Vec(u.x + v.x, u.y + v.y, u.z + v.z)

VecScale(u, k) == Vec(u.x * k, u.y * k, u.z * k)

gravity == Vec(0, gravityY, 0)

\* sin and cos of n * 0.06 rad, scaled by 10^4, for n = 0 .. 8
SinTable == <<0, 600, 1197, 1790, 2377, 2955, 3523, 4078, 4618>>

CosTable == <<10000, 9982, 9928, 9838, 9713, 9553, 9359, 9131, 8870>>

Abs(n) == IF n < 0 THEN -n ELSE n

\* player.forward for a given yaw: the unit vector (sin, 0, cos), scaled by
\* 10^4; yaw 0 is the orientation of the loaded root node, taken to face +Z
Forward(n) ==
    Vec((IF n < 0 THEN -1 ELSE 1) * SinTable[Abs(n) + 1], 0, CosTable[Abs(n) + 1])

(***************************************************************************)
(* Collaborators: Math.random, moveWithCollisions, intersectsMesh.         *)
(***************************************************************************)
\* the n-th value (n = 0, 1, ...) the modelled Math.random() returns, as a
\* numerator over RandMod, when its internal state is rs
Random(rs, n) == (rs[1] + n * rs[2]) % RandMod

\* variant of RandomCoordinate: the draw is not centred on the origin
RandomCoordinate_uncentred(r, extent) == r * ((extent * Metre) \div RandMod)

\* Math.random() * extent - extent / 2, in micrometres
RandomCoordinate(r, extent) == r * ((extent * Metre) \div RandMod) - (extent * Metre) \div 2

\* the scene holds no mesh with checkCollisions other than the player itself
\* (the ground is created without it), so the move is never clipped
moveWithCollisions(pos, displacement) == VecAdd(pos, displacement)

\* sphere.intersectsMesh(player, false): the coin's bounding box (diameters
\* 0.2, 1, 0.6 around its centre) against the player's root node
intersectsMesh(sphere, pos) ==
    /\ Abs(pos.x - sphere.x) <= CoinHalfX
    /\ Abs(pos.y - sphere.y) <= CoinHalfY
    /\ Abs(pos.z - sphere.z) <= CoinHalfZ

(***************************************************************************)
(* Key events (loadModel, OnKeyDownTrigger / OnKeyUpTrigger).              *)
(***************************************************************************)
toLowerCase(k) ==
    CASE k = "W" -> "w"
      [] k = "B" -> "b"
      [] k = "Shift" -> "shift"
      [] OTHER -> k

\* variant of EventKey: 'Shift' is lowercased like every other identifier
EventKey_alwaysLowercased(raw) == toLowerCase(raw)

\* the key the handlers look up: every identifier but 'Shift' is lowercased
EventKey(raw) == IF raw # "Shift" THEN toLowerCase(raw) ELSE raw

\* keyStatus after a key-down (value TRUE) or key-up (value FALSE) event
KeyEvent(ks, raw, value) ==
    IF EventKey(raw) \in Keys THEN [ks EXCEPT ![EventKey(raw)] = value] ELSE ks

(***************************************************************************)
(* Locomotion callback (loadModel, onBeforeRenderObservable).              *)
(***************************************************************************)
\* variant of Dancing: the samba branch is skipped while 'w' is held
Dancing_unlessForward(ks) == ks["b"] /\ ~ks["w"]

\* the samba branch returns before any other logic of the callback
Dancing(ks) == ks["b"]

\* variant of YawDelta: 'd' is looked at only when 'a' is not pressed
YawDelta_exclusive(ks) == IF ks["a"] THEN -1 ELSE IF ks["d"] THEN 1 ELSE 0

\* rotation steps applied by the 'a' and 'd' keys
YawDelta(ks) == (IF ks["a"] THEN -1 ELSE 0) + (IF ks["d"] THEN 1 ELSE 0)

Moving(ks) == ks["w"] \/ ks["s"]

\* variant of SelectSpeed: the sprint modifier is ignored
SelectSpeed_noSprint(ks, prev) ==
    IF ks["s"] /\ ~ks["w"] THEN -playerSpeedBackwards
    ELSE IF ks["w"] THEN playerWalkSpeed
    ELSE prev

\* variant of SelectSpeed: 's' wins over 'w'
SelectSpeed_backwardFirst(ks, prev) ==
    IF ks["s"] THEN -playerSpeedBackwards
    ELSE IF ks["w"] THEN (IF ks["Shift"] THEN playerRunSpeed ELSE playerWalkSpeed)
    ELSE prev

\* variant of SelectSpeed: the backward speed is not negated
SelectSpeed_backwardUnsigned(ks, prev) ==
    IF ks["s"] /\ ~ks["w"] THEN playerSpeedBackwards
    ELSE IF ks["w"] THEN (IF ks["Shift"] THEN playerRunSpeed ELSE playerWalkSpeed)
    ELSE prev

\* the closure variable speed after the movement logic
SelectSpeed(ks, prev) ==
    IF ks["s"] /\ ~ks["w"] THEN -playerSpeedBackwards
    ELSE IF ks["w"] THEN (IF ks["Shift"] THEN playerRunSpeed ELSE playerWalkSpeed)
    ELSE prev

\* the closure variable animSpeed after the movement logic
SelectAnimSpeed(ks, prev) ==
    IF ks["s"] /\ ~ks["w"] THEN prev
    ELSE IF ks["w"] THEN (IF ks["Shift"] THEN runAnimSpeed ELSE walkBackSpeed)
    ELSE prev

\* the animation group the callback starts
StartedGroup(ks) ==
    IF Dancing(ks) THEN "Samba"
    ELSE IF ks["s"] /\ ~ks["w"] THEN "WalkingBack"
    ELSE IF ks["w"] THEN "Walking"
    ELSE "Idle"

\* the animation groups playing after the callback's start and stop calls
Playing(ks, pl) ==
    IF Dancing(ks) THEN (pl \ {"Walking", "WalkingBack", "Idle"}) \cup {"Samba"}
    ELSE IF Moving(ks) THEN pl \cup {StartedGroup(ks)}
    ELSE (pl \ {"Walking", "WalkingBack"}) \cup {"Idle"}

\* variant of JumpRequested: the grounded flag is not consulted
JumpRequested_ignoresGrounded(ks, grounded) == ks[" "]

\* variant of JumpRequested: no jump while a movement key is held
JumpRequested_unlessMoving(ks, grounded) == ks[" "] /\ grounded /\ ~(ks["w"] \/ ks["s"])

\* the jump request at the end of the callback
JumpRequested(ks, grounded) == ks[" "] /\ grounded

\* the whole callback, as a function of the state it reads
Locomotion(ks, pos, yw, vel, grounded, spd, aspd, pl) ==
    IF Dancing(ks)
    THEN [position |-> pos, yaw |-> yw, velocity |-> vel, isGrounded |-> grounded,
          speed |-> spd, animSpeed |-> aspd, started |-> StartedGroup(ks),
          playing |-> Playing(ks, pl), jumped |-> FALSE]
    ELSE LET yw2  == yw + YawDelta(ks)
             spd2 == SelectSpeed(ks, spd)
             pos2 == IF Moving(ks)
                     THEN moveWithCollisions(pos, VecScale(Forward(yw2), spd2))
                     ELSE pos
             jump == JumpRequested(ks, grounded)
         IN [position |-> pos2, yaw |-> yw2,
             velocity |-> IF jump THEN [vel EXCEPT !.y = jumpForce] ELSE vel,
             isGrounded |-> IF jump THEN FALSE ELSE grounded,
             speed |-> spd2, animSpeed |-> SelectAnimSpeed(ks, aspd),
             started |-> StartedGroup(ks), playing |-> Playing(ks, pl),
             jumped |-> jump]

\* LocomotionMode signalled by a start call
Mode(group, aspd) ==
    CASE group = "Samba" -> "Dance"
      [] group = "WalkingBack" -> "WalkBackward"
      [] group = "Walking" -> (IF aspd = runAnimSpeed THEN "RunForward" ELSE "WalkForward")
      [] group = "Idle" -> "Idle"
      [] OTHER -> "None"

(***************************************************************************)
(* applyGravityAndJump, updateCamera, updateGame.                          *)
(***************************************************************************)
\* variant of Integrate: gravity is subtracted instead of added
Integrate_upward(vel, grounded, dt) ==
    IF ~grounded THEN VecAdd(vel, VecScale(gravity, -dt)) ELSE vel

\* variant of Integrate: the velocity is clamped at zero from below
Integrate_neverDownward(vel, grounded, dt) ==
    IF ~grounded
    THEN LET v == VecAdd(vel, VecScale(gravity, dt))
         IN [v EXCEPT !.y = IF v.y < 0 THEN 0 ELSE v.y]
    ELSE vel

\* gravity is added only while not grounded
Integrate(vel, grounded, dt) ==
    IF ~grounded THEN VecAdd(vel, VecScale(gravity, dt)) ELSE vel

\* variant of GroundContact: the threshold is the ground plane itself
GroundContact_atZero(pos) == pos.y <= 0

\* the height-threshold landing test
GroundContact(pos) == pos.y <= GroundThreshold

\* variant of applyGravityAndJump: landing does not reset the velocity
applyGravityAndJump_keepsVelocity(present, dt, pos, vel, grounded) ==
    IF present
    THEN LET vel2 == Integrate(vel, grounded, dt)
             pos2 == moveWithCollisions(pos, VecScale(vel2, dt))
         IN [position |-> pos2, velocity |-> vel2,
             isGrounded |-> (grounded \/ GroundContact(pos2)), fault |-> FALSE]
    ELSE [position |-> pos, velocity |-> vel, isGrounded |-> grounded,
          fault |-> FALSE]

applyGravityAndJump(present, dt, pos, vel, grounded) ==
    IF present
    THEN LET vel2 == Integrate(vel, grounded, dt)
             pos2 == moveWithCollisions(pos, VecScale(vel2, dt))
         IN IF GroundContact(pos2)
            THEN [position |-> pos2, velocity |-> [vel2 EXCEPT !.y = 0],
                  isGrounded |-> TRUE, fault |-> FALSE]
            ELSE [position |-> pos2, velocity |-> vel2,
                  isGrounded |-> grounded, fault |-> FALSE]
    ELSE [position |-> pos, velocity |-> vel, isGrounded |-> grounded,
          fault |-> FALSE]

\* variant of updateCamera: the presence guard is missing
updateCamera_unguarded(present, pos, yw, cpos, ctarget) ==
    LET backward == VecScale(Forward(yw), -(followDistance * (Metre \div ForwardScale)))
        cameraPosition == VecAdd(pos, backward)
    IN [camPosition |-> Vec(cameraPosition.x, cameraHeight * Metre, cameraPosition.z),
        camTarget |-> pos, fault |-> ~present]

\* variant of updateCamera: the camera height is taken relative to the avatar
updateCamera_relativeHeight(present, pos, yw, cpos, ctarget) ==
    IF present
    THEN LET backward == VecScale(Forward(yw), -(followDistance * (Metre \div ForwardScale)))
             cameraPosition == VecAdd(pos, backward)
         IN [camPosition |-> Vec(cameraPosition.x, cameraPosition.y + cameraHeight * Metre,
                                 cameraPosition.z),
             camTarget |-> pos, fault |-> FALSE]
    ELSE [camPosition |-> cpos, camTarget |-> ctarget, fault |-> FALSE]

updateCamera(present, pos, yw, cpos, ctarget) ==
    IF present
    THEN LET backward == VecScale(Forward(yw), -(followDistance * (Metre \div ForwardScale)))
             cameraPosition == VecAdd(pos, backward)
         IN [camPosition |-> Vec(cameraPosition.x, cameraHeight * Metre, cameraPosition.z),
             camTarget |-> pos, fault |-> FALSE]
    ELSE [camPosition |-> cpos, camTarget |-> ctarget, fault |-> FALSE]

\* position of the sphere spawnCoins creates in iteration i, drawing from the
\* generator state rs
Coin(rs, i) ==
    Vec(RandomCoordinate(Random(rs, 2 * i), groundWidth),
        CoinY,
        RandomCoordinate(Random(rs, 2 * i + 1), groundHeight))

\* sphere.position of every sphere, for each generator state
SpherePosition ==
    [rs \in RandomStates |-> [i \in 0 .. CoinCount - 1 |-> Coin(rs, i)]]

\* variant of Keep: every sphere is kept
Keep_always(spherePosition, pos) == TRUE

\* the filter callback: TRUE keeps the sphere at spherePosition
Keep(spherePosition, pos) == ~intersectsMesh(spherePosition, pos)

\* variant of updateGame: the sweep ends at the first sphere it removes
updateGame_stopsAtFirstHit(present, pos, sph, rs, disp) ==
    IF ~present
    THEN [spheres |-> sph, disposed |-> disp, fault |-> FALSE]
    ELSE LET at   == SpherePosition[rs]
             hits == SelectSeq(sph, LAMBDA i : ~Keep(at[i], pos))
         IN IF hits = <<>>
            THEN [spheres |-> sph, disposed |-> disp, fault |-> FALSE]
            ELSE [spheres |-> SelectSeq(sph, LAMBDA i : i # hits[1]),
                  disposed |-> Append(disp, hits[1]),
                  fault |-> FALSE]

updateGame(present, pos, sph, rs, disp) ==
    IF ~present
    THEN [spheres |-> sph, disposed |-> disp, fault |-> FALSE]
    ELSE LET at   == SpherePosition[rs]
             kept == SelectSeq(sph, LAMBDA i : Keep(at[i], pos))
         IN [spheres |-> kept,
             disposed |-> IF Len(kept) = Len(sph) THEN disp
                          ELSE disp \o SelectSeq(sph, LAMBDA i : ~Keep(at[i], pos)),
             fault |-> FALSE]

\* variant of NextStage: applyGravityAndJump is called before updateCamera
NextStage_gravityFirst(stage) ==
    CASE stage = "render" -> "applyGravityAndJump"
      [] stage = "applyGravityAndJump" -> "updateCamera"
      [] stage = "updateCamera" -> "updateGame"
      [] OTHER -> "idle"

\* the order of the calls in the render-loop callback
NextStage(stage) ==
    CASE stage = "render" -> "updateCamera"
      [] stage = "updateCamera" -> "applyGravityAndJump"
      [] stage = "applyGravityAndJump" -> "updateGame"
      [] OTHER -> "idle"

(***************************************************************************)
(* Initial state: the state after new App().  The camera starts at         *)
(* (0, 5, -10) with rotation (0, pi, 0), that is aimed along -Z.  The      *)
(* avatar's fields hold the values the loaded root node will have.         *)
(***************************************************************************)
Init ==
    /\ loading = "pending"
    /\ player = FALSE
    /\ pc = "idle"
    /\ frame = 0
    /\ events = 0
    /\ keyStatus = [k \in Keys |-> FALSE]
    /\ position = Vec(0, 0, 0)
    /\ yaw = 0
    /\ velocity = Vec(0, 0, 0)
    /\ isGrounded = TRUE
    /\ speed = 0
    /\ animSpeed = 0
    /\ started = "None"
    /\ playing = {}
    /\ camPosition = Vec(0, 5 * Metre, -10 * Metre)
    /\ camTarget = Vec(0, 5 * Metre, -11 * Metre)
    /\ spheres = <<>>
    /\ randomState \in RandomStates
    /\ disposed = <<>>
    /\ jumpsThisPress = 0
    /\ lastEvent = <<>>
    /\ fault = FALSE

(***************************************************************************)
(* Actions.                                                                *)
(***************************************************************************)
\* ImportMeshAsync resolves: the rest of loadModel runs (player is set, the
\* key handlers and the locomotion callback are registered)
LoadResolved ==
    /\ pc = "idle"
    /\ loading = "pending"
    /\ loading' = "resolved"
    /\ player' = TRUE
    /\ pc' = "spawnCoins"
    /\ UNCHANGED <<frame, events, keyStatus, position, yaw, velocity,
                   isGrounded, speed, animSpeed, started, playing, camPosition,
                   camTarget, spheres, randomState, disposed, jumpsThisPress, fault, lastEvent>>

\* ImportMeshAsync rejects: loadModel never continues, spawnCoins never runs
LoadRejected ==
    /\ pc = "idle"
    /\ loading = "pending"
    /\ loading' = "rejected"
    /\ UNCHANGED <<player, pc, frame, events, keyStatus, position, yaw,
                   velocity, isGrounded, speed, animSpeed, started, playing,
                   camPosition, camTarget, spheres, randomState, disposed, jumpsThisPress,
                   fault, lastEvent>>

\* the then-callback of loadModel(): spawnCoins pushes CoinCount spheres
SpawnCoins ==
    /\ pc = "spawnCoins"
    /\ spheres' = spheres \o [i \in 1 .. CoinCount |-> i - 1]
    /\ pc' = "idle"
    /\ UNCHANGED <<loading, player, frame, events, keyStatus, position, yaw,
                   velocity, isGrounded, speed, animSpeed, started, playing,
                   camPosition, camTarget, randomState, disposed,
                   jumpsThisPress, fault, lastEvent>>

\* a key-down event carrying one of the identifiers raws; the handler exists
\* once loadModel has registered it (events after the last modelled frame are
\* not followed)
KeyDownOf(raws) ==
    /\ pc = "idle"
    /\ player
    /\ frame < MaxFrames
    /\ events < MaxKeyEvents
    /\ events' = events + 1
    /\ \E raw \in raws :
         /\ keyStatus' = KeyEvent(keyStatus, raw, TRUE)
         /\ jumpsThisPress' = IF EventKey(raw) = " " /\ ~keyStatus[" "]
                              THEN 0 ELSE jumpsThisPress
         /\ lastEvent' = <<raw, TRUE>>
    /\ UNCHANGED <<loading, player, pc, frame, position, yaw,
                   velocity, isGrounded, speed, animSpeed, started, playing,
                   camPosition, camTarget, spheres, randomState, disposed, fault>>

KeyDown == KeyDownOf(RawKeys)

\* a key-up event carrying one of the identifiers raws
KeyUpOf(raws) ==
    /\ pc = "idle"
    /\ player
    /\ frame < MaxFrames
    /\ events < MaxKeyEvents
    /\ events' = events + 1
    /\ \E raw \in raws :
         /\ keyStatus' = KeyEvent(keyStatus, raw, FALSE)
         /\ lastEvent' = <<raw, FALSE>>
    /\ UNCHANGED <<loading, player, pc, frame, position, yaw,
                   velocity, isGrounded, speed, animSpeed, started, playing,
                   camPosition, camTarget, spheres, randomState, disposed, jumpsThisPress,
                   fault>>

KeyUp == KeyUpOf(RawKeys)

\* the render-loop callback starts: scene.render() notifies the locomotion
\* callback if loadModel has registered it
Render ==
    /\ pc = "idle"
    /\ frame < MaxFrames
    /\ frame' = frame + 1
    /\ pc' = NextStage("render")
    /\ lastEvent' = <<>>
    /\ IF player
       THEN LET r == Locomotion(keyStatus, position, yaw, velocity, isGrounded,
                                speed, animSpeed, playing)
            IN /\ position' = r.position
               /\ yaw' = r.yaw
               /\ velocity' = r.velocity
               /\ isGrounded' = r.isGrounded
               /\ speed' = r.speed
               /\ animSpeed' = r.animSpeed
               /\ started' = r.started
               /\ playing' = r.playing
               /\ jumpsThisPress' = jumpsThisPress + (IF r.jumped THEN 1 ELSE 0)
       ELSE UNCHANGED <<position, yaw, velocity, isGrounded, speed, animSpeed,
                        started, playing, jumpsThisPress>>
    /\ UNCHANGED <<loading, player, events, keyStatus, camPosition, camTarget,
                   spheres, randomState, disposed, fault>>

UpdateCamera ==
    /\ pc = "updateCamera"
    /\ pc' = NextStage(pc)
    /\ LET r == updateCamera(player, position, yaw, camPosition, camTarget)
       IN /\ camPosition' = r.camPosition
          /\ camTarget' = r.camTarget
          /\ fault' = (fault \/ r.fault)
    /\ UNCHANGED <<loading, player, frame, events, keyStatus, position, yaw,
                   velocity, isGrounded, speed, animSpeed, started, playing,
                   spheres, randomState, disposed, jumpsThisPress, lastEvent>>

ApplyGravityAndJump ==
    /\ pc = "applyGravityAndJump"
    /\ pc' = NextStage(pc)
    /\ \E dt \in DeltaTimes :
       LET r == applyGravityAndJump(player, dt, position, velocity, isGrounded)
       IN /\ position' = r.position
          /\ velocity' = r.velocity
          /\ isGrounded' = r.isGrounded
          /\ fault' = (fault \/ r.fault)
    /\ UNCHANGED <<loading, player, frame, events, keyStatus, yaw, speed,
                   animSpeed, started, playing, camPosition, camTarget, spheres, randomState,
                   disposed, jumpsThisPress, lastEvent>>

UpdateGame ==
    /\ pc = "updateGame"
    /\ pc' = NextStage(pc)
    /\ LET r == updateGame(player, position, spheres, randomState, disposed)
       IN /\ spheres' = r.spheres
          /\ disposed' = r.disposed
          /\ fault' = (fault \/ r.fault)
    /\ UNCHANGED <<loading, player, frame, events, keyStatus, position, yaw,
                   velocity, isGrounded, speed, animSpeed, started, playing,
                   camPosition, camTarget, randomState, jumpsThisPress, lastEvent>>

Next ==
    \/ LoadResolved
    \/ LoadRejected
    \/ SpawnCoins
    \/ KeyDown
    \/ KeyUp
    \/ Render
    \/ UpdateCamera
    \/ ApplyGravityAndJump
    \/ UpdateGame

Spec == Init /\ [][Next]_vars

(***************************************************************************)
(* The render loop under fair scheduling.  The engine calls the render-loop *)
(* callback again and again and runs each call to its end; the promise     *)
(* continuation that spawns the coins runs once the load has resolved.     *)
(* Frames beyond MaxFrames are followed for as long as the avatar is in    *)
(* the air; the key state no longer changes then.  The host delivers the   *)
(* key identifiers LiveRawKeys.                                            *)
(***************************************************************************)
LiveKeyDown == KeyDownOf(LiveRawKeys)

LiveKeyUp == KeyUpOf(LiveRawKeys)

\* the render-loop callback starts once more while the avatar is in the air
RenderAirborne ==
    /\ pc = "idle"
    /\ frame = MaxFrames
    /\ player
    /\ ~isGrounded
    /\ pc' = NextStage("render")
    /\ lastEvent' = <<>>
    /\ LET r == Locomotion(keyStatus, position, yaw, velocity, isGrounded,
                           speed, animSpeed, playing)
       IN /\ position' = r.position
          /\ yaw' = r.yaw
          /\ velocity' = r.velocity
          /\ isGrounded' = r.isGrounded
          /\ speed' = r.speed
          /\ animSpeed' = r.animSpeed
          /\ started' = r.started
          /\ playing' = r.playing
          /\ jumpsThisPress' = jumpsThisPress + (IF r.jumped THEN 1 ELSE 0)
    /\ UNCHANGED <<loading, player, frame, events, keyStatus, camPosition,
                   camTarget, spheres, randomState, disposed, fault>>

LiveNext ==
    \/ LoadResolved
    \/ LoadRejected
    \/ SpawnCoins
    \/ LiveKeyDown
    \/ LiveKeyUp
    \/ Render
    \/ RenderAirborne
    \/ UpdateCamera
    \/ ApplyGravityAndJump
    \/ UpdateGame

\* a step of the render loop or of the load continuation
FrameStep ==
    \/ SpawnCoins
    \/ Render
    \/ RenderAirborne
    \/ UpdateCamera
    \/ ApplyGravityAndJump
    \/ UpdateGame

\* the engine does not stop calling the render-loop callback
Fairness == WF_vars(FrameStep)

LiveSpec == Init /\ [][LiveNext]_vars /\ Fairness

(***************************************************************************)
(* Properties.                                                             *)
(***************************************************************************)
\* the step of a frame in which the locomotion callback runs
RenderStep == pc = "idle" /\ frame' = frame + 1

\* a jump is triggered: the grounded flag is cleared
JumpTriggered == isGrounded /\ ~isGrounded'

CurrentMode == Mode(started, animSpeed)

Range(seq) == {seq[k] : k \in 1 .. Len(seq)}

\* C1: in every frame executed while no avatar is present, updateCamera,
\* applyGravityAndJump and updateGame change neither the avatar's position and
\* velocity, nor the grounded flag, the camera or the live spheres, and they
\* do not fault.
C1_NoAvatarNoEffect ==
    [][(~player /\ pc \in {"updateCamera", "applyGravityAndJump", "updateGame"})
         => /\ UNCHANGED <<position, yaw, velocity, isGrounded, camPosition,
                           camTarget, spheres, disposed>>
            /\ ~fault']_vars

\* C1 witness: two whole frames have run after the load failed
C1_Witness ==
    loading = "rejected" /\ ~player /\ pc = "idle" /\ frame >= 2

\* C2: in a frame in which 'b' is pressed, the locomotion callback leaves the
\* avatar's orientation and horizontal position unchanged, whatever the other
\* keys are.
C2_DanceIsExclusive ==
    [][(player /\ RenderStep /\ keyStatus["b"])
         => /\ yaw' = yaw
            /\ position'.x = position.x
            /\ position'.z = position.z]_vars

\* C2 witness: the callback has run with 'b', 'w' and 'a' held
C2_Witness ==
    /\ pc = "updateCamera" /\ player
    /\ keyStatus["b"] /\ keyStatus["w"] /\ keyStatus["a"]
    /\ started = "Samba"

\* C3 as stated: a jump triggers only with the jump key pressed and the
\* avatar grounded, it sets velocity.y to the impulse and clears grounded, it
\* is not applied while airborne, and one key press produces exactly one
\* trigger.
C3_OneJumpPerPress ==
    [][/\ JumpTriggered
            => (RenderStep /\ keyStatus[" "] /\ velocity'.y = jumpForce)
       /\ (RenderStep /\ ~isGrounded)
            => (velocity' = velocity /\ ~isGrounded')
       /\ jumpsThisPress' <= 1]_vars

\* C3 as amended: a jump triggers only with the jump key pressed and the
\* avatar grounded, it sets velocity.y to the impulse and clears grounded, and
\* it is not applied while airborne; while the key stays held (and 'b' is
\* not pressed) it triggers again in every frame that starts grounded.
C3_JumpWhileGrounded ==
    [][/\ JumpTriggered
            => (RenderStep /\ keyStatus[" "] /\ velocity'.y = jumpForce)
       /\ (RenderStep /\ ~isGrounded)
            => (velocity' = velocity /\ ~isGrounded')
       /\ (RenderStep /\ player /\ keyStatus[" "] /\ ~keyStatus["b"] /\ isGrounded)
            => (JumpTriggered /\ jumpsThisPress' = jumpsThisPress + 1)]_vars

\* C3 witness: the callback has run with the jump key held and the avatar
\* airborne after one jump, and has left the velocity alone
C3_Witness ==
    /\ pc = "updateCamera" /\ keyStatus[" "] /\ ~keyStatus["b"]
    /\ ~isGrounded /\ jumpsThisPress = 1
    /\ velocity.y < jumpForce

\* C4 as stated: whenever the jump key is pressed and the avatar is grounded,
\* the locomotion callback sets velocity.y to the impulse and clears
\* grounded, whichever mode the frame selects.
C4_JumpInEveryMode ==
    [][(player /\ RenderStep /\ keyStatus[" "] /\ isGrounded)
         => (velocity'.y = jumpForce /\ ~isGrounded')]_vars

\* C4 as amended: with the jump key pressed and the avatar grounded, the
\* callback triggers the jump in the modes Idle, WalkForward, WalkBackward
\* and RunForward; in a Dance frame the jump request is not evaluated.
C4_JumpUnlessDancing ==
    [][(player /\ RenderStep /\ keyStatus[" "] /\ isGrounded)
         => IF keyStatus["b"]
            THEN /\ Mode(started', animSpeed') = "Dance"
                 /\ velocity' = velocity /\ isGrounded'
            ELSE /\ Mode(started', animSpeed')
                      \in {"Idle", "WalkForward", "WalkBackward", "RunForward"}
                 /\ velocity'.y = jumpForce /\ ~isGrounded']_vars

\* C4 witness: a jump has been triggered in a RunForward frame
C4_Witness ==
    /\ pc = "updateCamera" /\ keyStatus[" "]
    /\ CurrentMode = "RunForward"
    /\ position.z > 0
    /\ ~isGrounded /\ velocity.y = jumpForce

\* what one sweep removes: every live sphere intersecting the avatar
SweepRemoves ==
    \A k \in 1 .. Len(spheres) :
        intersectsMesh(SpherePosition[randomState][spheres[k]], position)
            => spheres[k] \notin Range(spheres')

\* C5 as stated: over the whole session the live count never increases, a
\* removed sphere never reappears, and a sphere intersecting the avatar
\* during a sweep is absent afterwards.
C5_PickupsMonotonic ==
    [][/\ Len(spheres') <= Len(spheres)
       /\ Range(spheres') \cap Range(disposed') = {}
       /\ (pc = "updateGame" /\ player) => SweepRemoves]_vars

\* C5 as amended: the same, except for the one step in which spawnCoins
\* fills the still empty live set with its 100 spheres.
C5_PickupsMonotonicAfterSpawn ==
    [][IF pc = "spawnCoins"
       THEN /\ spheres = <<>> /\ disposed = <<>>
            /\ Len(spheres') = CoinCount
            /\ disposed' = <<>>
       ELSE /\ Len(spheres') <= Len(spheres)
            /\ Range(spheres') \subseteq Range(spheres)
            /\ Range(spheres') \cap Range(disposed') = {}
            /\ (pc = "updateGame" /\ player) => SweepRemoves]_vars

\* C5 witness: two spheres have been removed and the others are still live
C5_Witness ==
    /\ pc = "idle" /\ player
    /\ Len(disposed) = 2
    /\ Len(spheres) = CoinCount - 2

\* C6 as stated: a frame runs locomotion, then applyGravityAndJump, then
\* updateCamera, then updateGame, so that the camera aims at the position
\* the avatar has at the end of the frame.
C6_GravityBeforeCamera ==
    [][/\ RenderStep => pc' = "applyGravityAndJump"
       /\ pc = "applyGravityAndJump" => pc' = "updateCamera"
       /\ pc = "updateCamera" => pc' = "updateGame"
       /\ pc = "updateGame" => pc' = "idle"
       /\ (pc = "updateGame" /\ player) => camTarget' = position']_vars

\* C6 as amended: a frame runs locomotion, then updateCamera, then
\* applyGravityAndJump, then updateGame; the camera aims at the position the
\* avatar has after locomotion and before the vertical move, and the later
\* steps of the frame leave the camera alone.
C6_CameraBeforeGravity ==
    [][/\ RenderStep => pc' = "updateCamera"
       /\ pc = "updateCamera"
            => (pc' = "applyGravityAndJump" /\ (player => camTarget' = position))
       /\ pc = "applyGravityAndJump"
            => (pc' = "updateGame" /\ UNCHANGED <<camPosition, camTarget>>)
       /\ pc = "updateGame"
            => (pc' = "idle" /\ UNCHANGED <<camPosition, camTarget>>)]_vars

\* C6 witness: at the end of a frame the camera aims below the avatar, whose
\* height the vertical move has changed after the camera was placed
C6_Witness ==
    /\ pc = "idle" /\ player /\ frame >= 1
    /\ camTarget.y < position.y

\* C7: with 'b' not pressed, 'w' pressed and 's' not pressed, the mode is
\* WalkForward with speed playerWalkSpeed without 'Shift' and RunForward with
\* speed playerRunSpeed with 'Shift', and the avatar moves by that speed
\* along its forward direction.
C7_ForwardWalkOrRun ==
    [][(player /\ RenderStep /\ ~keyStatus["b"] /\ keyStatus["w"] /\ ~keyStatus["s"])
         => /\ Mode(started', animSpeed')
                 = (IF keyStatus["Shift"] THEN "RunForward" ELSE "WalkForward")
            /\ speed' = (IF keyStatus["Shift"] THEN playerRunSpeed ELSE playerWalkSpeed)
            /\ position' = VecAdd(position, VecScale(Forward(yaw'), speed'))]_vars

\* C7 witness: a RunForward frame has moved the avatar by playerRunSpeed
C7_Witness ==
    /\ pc = "updateCamera"
    /\ keyStatus["w"] /\ keyStatus["Shift"] /\ ~keyStatus["s"] /\ ~keyStatus["b"]
    /\ CurrentMode = "RunForward" /\ speed = playerRunSpeed
    /\ position.z = playerRunSpeed * ForwardScale

\* C8: with 'b' not pressed and both 'w' and 's' pressed, the mode is
\* WalkForward or RunForward, never WalkBackward, and the avatar moves by the
\* forward walk or run speed along its forward direction.
C8_ForwardHasPriority ==
    [][(player /\ RenderStep /\ ~keyStatus["b"] /\ keyStatus["w"] /\ keyStatus["s"])
         => /\ Mode(started', animSpeed')
                 = (IF keyStatus["Shift"] THEN "RunForward" ELSE "WalkForward")
            /\ speed' = (IF keyStatus["Shift"] THEN playerRunSpeed ELSE playerWalkSpeed)
            /\ speed' > 0
            /\ position' = VecAdd(position, VecScale(Forward(yaw'), speed'))]_vars

\* C8 witness: a frame with 'w' and 's' held has walked the avatar forward
C8_Witness ==
    /\ pc = "updateCamera"
    /\ keyStatus["w"] /\ keyStatus["s"] /\ ~keyStatus["b"]
    /\ CurrentMode = "WalkForward"
    /\ position.z = playerWalkSpeed * ForwardScale

\* C9: when the avatar's height after the vertical move is at or below the
\* threshold, applyGravityAndJump sets grounded and zeroes velocity.y in that
\* same call.
C9_Landing ==
    [][(pc = "applyGravityAndJump" /\ player /\ position'.y <= GroundThreshold)
         => (isGrounded' /\ velocity'.y = 0)]_vars

\* C9 witness: the avatar has fallen below the ground plane and has landed
C9_Witness ==
    /\ pc = "updateGame" /\ player
    /\ position.y < 0
    /\ isGrounded /\ velocity.y = 0

\* C10: while the avatar stays airborne, every applyGravityAndJump lowers
\* velocity.y by gravity * dt for the frame's dt, and no other step changes
\* the velocity, so velocity.y strictly decreases from frame to frame.
C10_GravityDecreasesVelocity ==
    [][(~isGrounded /\ ~isGrounded')
         => IF pc = "applyGravityAndJump"
            THEN /\ velocity'.y < velocity.y
                 /\ \E dt \in DeltaTimes : velocity'.y = velocity.y + gravityY * dt
            ELSE velocity' = velocity]_vars

\* C10 witness: the avatar is airborne after at least two frames of falling
C10_Witness ==
    /\ pc = "updateGame"
    /\ ~isGrounded
    /\ velocity.y < 0

\* C11: whenever the avatar is present, updateCamera places the camera at
\* (position.x - 10 * forward.x, 5, position.z - 10 * forward.z) and aims it at
\* the avatar's position, whatever the camera's previous position and target
\* and whatever the avatar's height; for the avatar at the origin facing +Z
\* this is the position (0, 5, -10) and the target (0, 0, 0).
C11_CameraFollows ==
    [][(pc = "updateCamera" /\ player)
         => /\ camPosition' = Vec(position.x - 10 * 100 * Forward(yaw).x,
                                  5 * Metre,
                                  position.z - 10 * 100 * Forward(yaw).z)
            /\ camTarget' = position
            /\ (position = Vec(0, 0, 0) /\ yaw = 0)
                 => /\ camPosition' = Vec(0, 5 * Metre, -10 * Metre)
                    /\ camTarget' = Vec(0, 0, 0)]_vars

\* C11 witness: the camera has been placed behind a turned avatar that is in
\* the air, at height 5 and aimed at the avatar
C11_Witness ==
    /\ pc = "applyGravityAndJump" /\ player
    /\ yaw # 0 /\ position.y > 0
    /\ camPosition.y = 5 * Metre /\ camPosition.x # position.x
    /\ camTarget = position

\* position of the live sphere at index k of the array
SphereAt(sph, k) == SpherePosition[randomState][sph[k]]

\* C12: spawnCoins creates exactly 100 spheres, coin_0 .. coin_99, each with x
\* and z inside [-25, 25] and y equal to 0.25, and when it returns the live
\* set holds exactly those 100 spheres.
C12_SpawnCoins ==
    [][pc = "spawnCoins"
         => /\ Len(spheres') = 100
            /\ Range(spheres') = 0 .. 99
            /\ \A k \in 1 .. Len(spheres') :
                 /\ SphereAt(spheres', k).x >= -25 * Metre
                 /\ SphereAt(spheres', k).x <= 25 * Metre
                 /\ SphereAt(spheres', k).z >= -25 * Metre
                 /\ SphereAt(spheres', k).z <= 25 * Metre
                 /\ 4 * SphereAt(spheres', k).y = Metre]_vars

\* C12 witness: spawnCoins has returned and one of its 100 spheres lies on the
\* edge of the ground, another one in the half with positive x
C12_Witness ==
    /\ pc = "idle" /\ loading = "resolved" /\ frame = 0
    /\ Len(spheres) = 100
    /\ \E k \in 1 .. Len(spheres) : SphereAt(spheres, k).z = -25 * Metre
    /\ \E k \in 1 .. Len(spheres) : SphereAt(spheres, k).x > 20 * Metre

\* C13: a key-down event for a recognised key sets exactly that key's flag, a
\* key-up event clears exactly that flag, and every other flag is left alone;
\* an event with an unrecognised identifier leaves keyStatus unchanged.
\* Letters are recognised in either case ('W' is 'w'), the sprint modifier
\* only as 'Shift' ('shift' is unrecognised).
C13_KeyEvents ==
    [][events' = events + 1
         => LET raw   == lastEvent'[1]
                value == lastEvent'[2]
            IN /\ raw \in {"w", "W"}
                    => keyStatus' = [keyStatus EXCEPT !["w"] = value]
               /\ raw \in {"s", "a", "d", "b", " ", "Shift"}
                    => keyStatus' = [keyStatus EXCEPT ![raw] = value]
               /\ raw \in {"shift", "x"}
                    => keyStatus' = keyStatus
               /\ DOMAIN keyStatus' = {"w", "s", "a", "d", "b", "Shift", " "}]_vars

\* C13 witness: the forward and sprint flags have been set by two key-down
\* events, and a key-up event for 'shift' has then changed nothing
C13_Witness ==
    /\ events = 3
    /\ lastEvent = <<"shift", FALSE>>
    /\ keyStatus = [k \in Keys |-> k \in {"w", "Shift"}]

\* C14: with 'b' not pressed, a frame with 's' pressed and 'w' not pressed
\* selects WalkBackward and moves the avatar by playerSpeedBackwards against
\* its forward direction (the one it has after this frame's rotation); a
\* frame with neither 'w' nor 's' pressed selects Idle and the locomotion
\* callback leaves the position unchanged, while the rotation still applies.
C14_BackwardAndIdle ==
    [][(player /\ RenderStep /\ ~keyStatus["b"])
         => /\ (keyStatus["s"] /\ ~keyStatus["w"])
                 => /\ Mode(started', animSpeed') = "WalkBackward"
                    /\ speed' = -playerSpeedBackwards
                    /\ position' = VecAdd(position,
                                          VecScale(Forward(yaw'), -playerSpeedBackwards))
            /\ (~keyStatus["s"] /\ ~keyStatus["w"])
                 => /\ Mode(started', animSpeed') = "Idle"
                    /\ position' = position
                    /\ speed' = speed
                    /\ yaw' = yaw + (IF keyStatus["a"] THEN -1 ELSE 0)
                                   + (IF keyStatus["d"] THEN 1 ELSE 0)]_vars

\* C14 witness: a WalkBackward frame has turned the avatar to the left and
\* moved it backwards along its new forward direction
C14_Witness ==
    /\ pc = "updateCamera"
    /\ keyStatus["s"] /\ ~keyStatus["w"] /\ ~keyStatus["b"] /\ keyStatus["a"]
    /\ CurrentMode = "WalkBackward"
    /\ yaw = -1
    /\ position.z < 0 /\ position.x > 0

\* C15: with 'b' not pressed, the locomotion callback turns the avatar by
\* -playerRotationSpeed if 'a' is pressed plus +playerRotationSpeed if 'd' is
\* pressed (one rotation step each, so zero when both are pressed), the same
\* amount in every frame whatever the frame times; no other step of a frame
\* changes the orientation.
C15_RotationPerFrame ==
    [][/\ (player /\ RenderStep /\ ~keyStatus["b"])
            => /\ yaw' = yaw + (IF keyStatus["a"] THEN -1 ELSE 0)
                              + (IF keyStatus["d"] THEN 1 ELSE 0)
               /\ (keyStatus["a"] /\ keyStatus["d"]) => yaw' = yaw
       /\ ~RenderStep => yaw' = yaw]_vars

\* C15 witness: the second frame has run with 'a' and 'd' both held, after a
\* first frame that turned the avatar one step to the left
C15_Witness ==
    /\ pc = "updateCamera" /\ frame = 2
    /\ keyStatus["a"] /\ keyStatus["d"] /\ ~keyStatus["b"]
    /\ yaw = -1

\* the live spheres whose bounding box intersects the avatar
Intersecting ==
    {spheres[k] : k \in {n \in 1 .. Len(spheres) :
                            intersectsMesh(SphereAt(spheres, n), position)}}

\* seq without the elements of the set hit, in the same order
Without(seq, hit) == SelectSeq(seq, LAMBDA e : e \notin hit)

\* C16: one sweep of updateGame leaves as live spheres exactly those of the
\* spheres live before it that do not intersect the avatar, in their order;
\* it disposes every intersecting sphere exactly once and no other sphere,
\* however many spheres it removes.
C16_SweepIsExact ==
    [][(pc = "updateGame" /\ player)
         => /\ spheres' = Without(spheres, Intersecting)
            /\ Range(disposed') = Range(disposed) \cup Intersecting
            /\ Len(disposed') = Len(disposed) + Cardinality(Intersecting)
            /\ Cardinality(Range(disposed')) = Len(disposed')
            /\ Range(spheres') \cap Range(disposed') = {}]_vars

\* C16 witness: the sweep of the first frame has removed two spheres at once
\* and has kept the other 98
C16_Witness ==
    /\ pc = "idle" /\ player /\ frame = 1
    /\ Len(disposed) = 2
    /\ Len(spheres) = CoinCount - 2

\* C17: at the end of every locomotion callback at most one of the animation
\* groups Idle, Walking, WalkingBack and Samba is playing, and it is the one
\* of the mode the frame selected (the group the callback has just started).
C17_OneAnimationPlaying ==
    (player /\ pc = "updateCamera") => playing = {started}

\* C18: in every reachable state, and so at every frame boundary, a set
\* grounded flag comes with velocity.y = 0, and velocity.x and velocity.z are
\* 0; hence applyGravityAndJump leaves the position of a grounded avatar
\* unchanged.
C18_GroundedMeansAtRest ==
    [][/\ isGrounded => velocity.y = 0
       /\ isGrounded' => velocity'.y = 0
       /\ velocity.x = 0 /\ velocity.z = 0
       /\ velocity'.x = 0 /\ velocity'.z = 0
       /\ (pc = "applyGravityAndJump" /\ player /\ isGrounded)
            => (position' = position /\ velocity' = velocity /\ isGrounded')]_vars

\* C18 witness: the avatar has landed below the ground plane in an earlier
\* frame, and applyGravityAndJump has just run on the grounded avatar without
\* moving it away from where the camera was aimed in this frame
C18_Witness ==
    /\ pc = "updateGame" /\ player /\ frame = 3
    /\ ~keyStatus[" "]
    /\ isGrounded /\ velocity = Vec(0, 0, 0)
    /\ position.y < 0
    /\ camTarget = position

\* C19: when the locomotion callback has triggered a jump for a grounded
\* avatar at ground height, then after applyGravityAndJump of the same frame
\* the avatar is still not grounded and velocity.y is still positive, for
\* every frame time.
C19_JumpTakesOff ==
    [][(pc = "applyGravityAndJump" /\ player
          /\ ~isGrounded /\ velocity.y = jumpForce /\ position.y = 0)
         => (~isGrounded' /\ velocity'.y > 0)]_vars

\* C20: under LiveSpec, whenever the avatar is not grounded, a later frame
\* sets grounded with velocity.y = 0, whichever keys are held.
C20_AirborneLands ==
    (player /\ ~isGrounded) ~> (isGrounded /\ velocity.y = 0)

\* C20 witness: a flight followed beyond the counted frames has ended with a
\* landing more than a metre below the ground plane, reached by a long frame
\* at high downward speed
C20_Witness ==
    /\ pc = "idle" /\ player /\ frame = MaxFrames
    /\ isGrounded /\ velocity.y = 0
    /\ position.y < -Metre

====
